---- MODULE Spec2Model ----
(***************************************************************************)
(* One run of the Streamlit script src/app.py: AOI -> two NDVI fetches ->  *)
(* difference -> temporary raster -> normalised image -> threshold ->      *)
(* polygons -> GeoJSON and zipped-shapefile downloads.                     *)
(*                                                                         *)
(* Numbers.  NDVI samples are float32 in [-1,1]; the model keeps them as   *)
(* integers in units of 1/Scale, so an NDVI value is in -Scale..Scale, a   *)
(* difference in -2*Scale..2*Scale and the slider value in 0..Scale.       *)
(* A normalised sample is the exact quotient <<num, den>>; 0/0 is what     *)
(* numpy yields as not-a-number.                                           *)
(* A raster is a sequence of rows (shape <<H, W>>), None is <<>>; a value   *)
(* that may itself be empty (a number, a list) is held as <<value>>.       *)
(***************************************************************************)
EXTENDS Integers, Sequences, FiniteSets

VARIABLES pc, status, error,
          aoi_file, output, aoi_geojson, bbox,
          date1, date2, size, button,
          requests, ndvi1, ndvi2, diff,
          disk, zip_file,
          displayed, threshold, binary, geoms, reported,
          geojson_bytes, zip_bytes

vars == <<pc, status, error, aoi_file, output, aoi_geojson, bbox,
          date1, date2, size, button, requests, ndvi1, ndvi2, diff,
          disk, zip_file, displayed, threshold, binary, geoms, reported,
          geojson_bytes, zip_bytes>>

None == <<>>

\* ------------------------------------------------------------------ bounds
\* fixed-point resolution of NDVI values and of the slider
Scale == 1
\* largest mask the polygonizer is checked on exhaustively
MaxH == 2
MaxW == 3

\* ------------------------------------------------------------- constants
\* resolution = 10  (metres per pixel)
resolution == 10

\* ------------------------------------------------------------ arithmetic
Abs(x) == IF x < 0 THEN -x ELSE x

SetMin(S) == CHOOSE x \in S : \A y \in S : x <= y
SetMax(S) == CHOOSE x \in S : \A y \in S : x >= y

\* Python's round(n / d) for n >= 0, d > 0: ties go to the even integer
RoundHalfEven(n, d) ==
    LET q == n \div d
        r == n % d
    IN  IF 2 * r < d THEN q
        ELSE IF 2 * r > d THEN q + 1
        ELSE IF q % 2 = 0 THEN q ELSE q + 1

\* --------------------------------------------------------------- rasters
Height(r) == Len(r)
Width(r) == Len(r[1])
Shape(r) == <<Height(r), Width(r)>>
Pixels(r) == (1..Height(r)) \X (1..Width(r))
Values(r) == {r[p[1]][p[2]] : p \in Pixels(r)}

\* every raster of shape <<h, w>> with samples in V
RastersOf(h, w, V) == [1..h -> [1..w -> V]]

\* ------------------------------------------------------------------ AOI
\* A GeoJSON polygon is its ring of vertices, in metres of the projected grid
\* bbox_to_dimensions works in.
Geoms == { << <<0, 0>>, <<20, 0>>, <<20, 10>>, <<0, 10>> >>,
           << <<10, 0>>, <<35, 20>>, <<0, 35>> >> }

\* geom.bounds (line 44) and BBox(bbox=[...]) (line 45)
Bounds(g) ==
    LET xs == {g[k][1] : k \in 1..Len(g)}
        ys == {g[k][2] : k \in 1..Len(g)}
    IN  <<SetMin(xs), SetMin(ys), SetMax(xs), SetMax(ys)>>

\* bbox_to_dimensions(bbox, resolution) (line 55): (width, height) in pixels
bbox_to_dimensions(b, res) ==
    <<RoundHalfEven(b[3] - b[1], res), RoundHalfEven(b[4] - b[2], res)>>

Dates == {1, 2}

\* ------------------------------------------------------------- the remote
\* What request.get_data()[0] may hand back.  The service is opaque to the
\* script: nothing in it constrains the returned array, so the responses cover
\* equal shapes, shapes numpy can broadcast against each other and shapes it
\* cannot.
Responses ==
    { << <<0, Scale>> >>,
      << <<Scale, 0>> >>,
      << <<Scale, 0>>, <<0, Scale>> >>,
      << <<-Scale, 0>>, <<0, -Scale>> >>,
      << <<Scale, Scale>>, <<Scale, Scale>> >>,
      << <<0, 0, Scale>> >>,
      << <<-Scale>> >> }

\* ------------------------------------------------------------ numpy ops
\* numpy broadcasting of two 2-D shapes: each axis must agree or be 1
Broadcastable(s1, s2) ==
    /\ (s1[1] = s2[1] \/ s1[1] = 1 \/ s2[1] = 1)
    /\ (s1[2] = s2[2] \/ s1[2] = 1 \/ s2[2] = 1)

BroadcastShape(s1, s2) ==
    << IF s1[1] >= s2[1] THEN s1[1] ELSE s2[1],
       IF s1[2] >= s2[2] THEN s1[2] ELSE s2[2] >>

\* the sample of r that a broadcast to a larger shape reads at (i, j)
At(r, i, j) ==
    r[IF Height(r) = 1 THEN 1 ELSE i][IF Width(r) = 1 THEN 1 ELSE j]

\* mutant: the operands swapped
SubtractReversed(a, b) ==
    LET s == BroadcastShape(Shape(a), Shape(b))
    IN  [i \in 1..s[1] |-> [j \in 1..s[2] |-> At(b, i, j) - At(a, i, j)]]

\* ndvi2 - ndvi1 (line 94), defined when the shapes are broadcastable
Subtract(a, b) ==
    LET s == BroadcastShape(Shape(a), Shape(b))
    IN  [i \in 1..s[1] |-> [j \in 1..s[2] |-> At(a, i, j) - At(b, i, j)]]

\* (diff - np.min(diff)) / (np.max(diff) - np.min(diff)) (line 112)
Normalize(d) ==
    LET lo == SetMin(Values(d))
        hi == SetMax(Values(d))
    IN  [i \in 1..Height(d) |-> [j \in 1..Width(d) |-> <<d[i][j] - lo, hi - lo>>]]

IsNaN(v) == v[1] = 0 /\ v[2] = 0

\* mutant: >= in place of >
ThresholderInclusive(d, t) ==
    [i \in 1..Height(d) |-> [j \in 1..Width(d) |->
        IF Abs(d[i][j]) >= t THEN 1 ELSE 0]]

\* (np.abs(diff) > threshold).astype(np.uint8) (line 118)
Thresholder(d, t) ==
    [i \in 1..Height(d) |-> [j \in 1..Width(d) |->
        IF Abs(d[i][j]) > t THEN 1 ELSE 0]]

\* ----------------------------------------------------------- polygonizer
\* mutant: connectivity=8, corner neighbours too
Neighbours8(p) ==
    { <<p[1] + di, p[2] + dj>> : <<di, dj>> \in ({-1, 0, 1} \X {-1, 0, 1}) \ {<<0, 0>>} }

\* rasterio.features.shapes is called without a connectivity argument
\* (line 121), so regions are 4-connected: edge neighbours only
Neighbours(p) ==
    { <<p[1] - 1, p[2]>>, <<p[1] + 1, p[2]>>, <<p[1], p[2] - 1>>, <<p[1], p[2] + 1>> }

\* grow S inside P over neighbours carrying the same sample
RECURSIVE Fill(_, _, _)
Fill(S, P, img) ==
    LET next == S \cup { q \in P : \E p \in S :
                            q \in Neighbours(p) /\ img[q[1]][q[2]] = img[p[1]][p[2]] }
    IN  IF next = S THEN S ELSE Fill(next, P, img)

\* first pixel of P in raster-scan order
FirstPixel(P) ==
    CHOOSE p \in P : \A q \in P : p[1] < q[1] \/ (p[1] = q[1] /\ p[2] <= q[2])

RECURSIVE Extract(_, _)
Extract(P, img) ==
    IF P = {} THEN <<>>
    ELSE LET seed == FirstPixel(P)
             region == Fill({seed}, P, img)
         IN  << [cells |-> region, val |-> img[seed[1]][seed[2]]] >>
                 \o Extract(P \ region, img)

\* shapes(binary, mask=binary.astype(bool), transform=...) (line 121): one
\* (geometry, value) pair per connected region of equal samples among the
\* pixels the mask keeps.  A geometry is the set of pixel cells it covers; the
\* affine transform only relabels the cells with geographic coordinates.
shapes(image, mask) ==
    Extract({p \in Pixels(image) : mask[p[1]][p[2]] # 0}, image)

\* [shape(geom) for geom, val in shapes_gen if val == 1] (line 122)
Polygons(image) ==
    LET gen == shapes(image, image)
        IsOne(s) == s.val = 1
        kept == SelectSeq(gen, IsOne)
    IN  [k \in 1..Len(kept) |-> kept[k].cells]

\* ------------------------------------------------------------ file system
\* a path is <<directory, stem, extension>>; a directory is <<dir, "", "">>
tmpdir == "tmpdir"
zdir == "zdir"
Dir(d) == <<d, "", "">>
diff_path == <<tmpdir, "ndvi_diff", ".tif">>
shp_path == <<zdir, "ndvi_change", ".shp">>
zip_path == <<zdir, "ndvi_change", ".zip">>
Exts == <<".shp", ".shx", ".dbf", ".cpg", ".prj">>

\* shp_path.replace(".shp", ext) (line 137)
Part(ext) == <<shp_path[1], shp_path[2], ext>>
Parts == [k \in 1..Len(Exts) |-> Part(Exts[k])]
PartSet == {Parts[k] : k \in 1..Len(Parts)}

\* os.path.basename (line 139)
basename(p) == <<p[2], p[3]>>

\* mutant: tempfile.mkdtemp(), a directory nobody removes
CleanupNever(d, dsk) == dsk

\* TemporaryDirectory.__exit__: the directory and everything in it go
Cleanup(d, dsk) == {p \in dsk : p[1] # d}

\* mutant: the existence test dropped
ExistsUnchecked(p, dsk) == TRUE

\* os.path.exists(part) (line 138)
Exists(p, dsk) == p \in dsk

\* the parts the loop of lines 136-139 hands to zf.write, in order
Archived(dsk) ==
    LET Keep(p) == Exists(p, dsk)
    IN  SelectSeq(Parts, Keep)

\* ------------------------------------------------------------------ state
ctl == <<pc, status, error>>
ui == <<aoi_file, output, aoi_geojson, bbox, date1, date2, size, button>>
net == <<requests, ndvi1, ndvi2, diff>>
fs == <<disk, zip_file>>
out == <<displayed, threshold, binary, geoms, reported, geojson_bytes, zip_bytes>>

\* the script's globals before line 24 runs
Init ==
    /\ pc = "upload" /\ status = "running" /\ error = ""
    /\ aoi_file = None /\ output = None /\ aoi_geojson = None /\ bbox = None
    /\ date1 = None /\ date2 = None /\ size = None /\ button = FALSE
    /\ requests = <<>> /\ ndvi1 = None /\ ndvi2 = None /\ diff = None
    /\ disk = {} /\ zip_file = None
    /\ displayed = None /\ threshold = None /\ binary = None /\ geoms = None
    /\ reported = None /\ geojson_bytes = None /\ zip_bytes = None

\* An uncaught exception ends the script run; on its way out it leaves every
\* `with tempfile.TemporaryDirectory()` block it is inside of (lines 131, 97).
Raise(e) ==
    /\ status' = "failed" /\ error' = e /\ pc' = "done"
    /\ disk' = Cleanup(tmpdir, Cleanup(zdir, disk))
    /\ zip_file' = None

\* the script runs off its end
Finish == status' = "ok" /\ error' = error /\ pc' = "done"

Goto(l) == pc' = l /\ UNCHANGED <<status, error>>

\* ------------------------------------------------------------ AOI (24-47)
\* what the uploader widget holds: nothing, a Feature, or a file that is not JSON
Uploads == {None} \cup {<<[json |-> TRUE, geometry |-> g]>> : g \in Geoms}
                  \cup {<<[json |-> FALSE, geometry |-> None]>>}

\* lines 24-29
Upload ==
    /\ pc = "upload"
    /\ \E f \in Uploads :
        /\ aoi_file' = f
        /\ IF f = None
           THEN /\ Goto("draw")
                /\ UNCHANGED <<aoi_geojson, fs>>
           ELSE IF f[1].json
           THEN /\ aoi_geojson' = f[1].geometry
                /\ Goto("aoi")
                /\ UNCHANGED fs
           ELSE /\ Raise("JSONDecodeError")
                /\ UNCHANGED aoi_geojson
    /\ UNCHANGED <<output, bbox, date1, date2, size, button, net, out>>

\* lines 30-39: the map widget returns the last drawing, if any
Draw ==
    /\ pc = "draw"
    /\ \E d \in {None} \cup Geoms :
        /\ output' = d
        /\ aoi_geojson' = IF d # None THEN d ELSE aoi_geojson
    /\ Goto("aoi")
    /\ UNCHANGED <<aoi_file, bbox, date1, date2, size, button, net, fs, out>>

\* mutant: a missing AOI falls back on a default area instead of stopping
ResolveAOIDefault ==
    /\ pc = "aoi"
    /\ bbox' = Bounds(IF aoi_geojson # None THEN aoi_geojson
                                           ELSE CHOOSE g \in Geoms : Len(g) = 4)
    /\ Goto("dates")
    /\ UNCHANGED <<aoi_file, output, aoi_geojson, date1, date2, size, button,
                   net, fs, out>>

\* lines 41-47; with no AOI the rest of the script is skipped
ResolveAOI ==
    /\ pc = "aoi"
    /\ IF aoi_geojson # None
       THEN /\ bbox' = Bounds(aoi_geojson)
            /\ Goto("dates")
       ELSE /\ Finish
            /\ UNCHANGED bbox
    /\ UNCHANGED <<aoi_file, output, aoi_geojson, date1, date2, size, button,
                   net, fs, out>>

\* lines 51-55
SelectDates ==
    /\ pc = "dates"
    /\ date1' \in {<<d>> : d \in Dates}
    /\ date2' \in {<<d>> : d \in Dates}
    /\ size' = bbox_to_dimensions(bbox, resolution)
    /\ Goto("button")
    /\ UNCHANGED <<aoi_file, output, aoi_geojson, bbox, button, net, fs, out>>

\* line 90
Button ==
    /\ pc = "button"
    /\ \E clicked \in BOOLEAN :
        /\ button' = clicked
        /\ IF clicked THEN Goto("fetch1") ELSE Finish
    /\ UNCHANGED <<aoi_file, output, aoi_geojson, bbox, date1, date2, size,
                   net, fs, out>>

\* ------------------------------------------------------- fetch (76-94)
\* the SentinelHubRequest of lines 77-87
Request(date) ==
    [time_interval |-> <<date[1], date[1]>>, bbox |-> bbox, size |-> size]

\* mutant: a failed request is sent once more before giving up
Fetch1Retry ==
    /\ pc = "fetch1"
    /\ \/ /\ requests' = Append(requests, Request(date1))
          /\ ndvi1' \in Responses
          /\ Goto("fetch2")
          /\ UNCHANGED fs
       \/ /\ requests' = Append(Append(requests, Request(date1)), Request(date1))
          /\ \/ /\ ndvi1' \in Responses
                /\ Goto("fetch2")
                /\ UNCHANGED fs
             \/ /\ Raise("DownloadFailedException")
                /\ UNCHANGED ndvi1
    /\ UNCHANGED <<ui, ndvi2, diff, out>>

\* get_ndvi(date1) (line 92): one request; it answers or raises
Fetch1 ==
    /\ pc = "fetch1"
    /\ requests' = Append(requests, Request(date1))
    /\ \/ /\ ndvi1' \in Responses
          /\ Goto("fetch2")
          /\ UNCHANGED fs
       \/ /\ Raise("DownloadFailedException")
          /\ UNCHANGED ndvi1
    /\ UNCHANGED <<ui, ndvi2, diff, out>>

\* mutant: equal dates reuse the first answer instead of asking again
Fetch2Reuse ==
    /\ pc = "fetch2"
    /\ IF date2 = date1
       THEN /\ ndvi2' = ndvi1
            /\ Goto("subtract")
            /\ UNCHANGED <<requests, fs>>
       ELSE /\ requests' = Append(requests, Request(date2))
            /\ \/ /\ ndvi2' \in Responses
                  /\ Goto("subtract")
                  /\ UNCHANGED fs
               \/ /\ Raise("DownloadFailedException")
                  /\ UNCHANGED ndvi2
    /\ UNCHANGED <<ui, ndvi1, diff, out>>

\* get_ndvi(date2) (line 93)
Fetch2 ==
    /\ pc = "fetch2"
    /\ requests' = Append(requests, Request(date2))
    /\ \/ /\ ndvi2' \in Responses
          /\ Goto("subtract")
          /\ UNCHANGED fs
       \/ /\ Raise("DownloadFailedException")
          /\ UNCHANGED ndvi2
    /\ UNCHANGED <<ui, ndvi1, diff, out>>

\* diff = ndvi2 - ndvi1 (line 94): numpy raises ValueError only for shapes it
\* cannot broadcast
Differencer ==
    /\ pc = "subtract"
    /\ IF Broadcastable(Shape(ndvi2), Shape(ndvi1))
       THEN /\ diff' = Subtract(ndvi2, ndvi1)
            /\ Goto("tmpdir")
            /\ UNCHANGED fs
       ELSE /\ Raise("ValueError")
            /\ UNCHANGED diff
    /\ UNCHANGED <<ui, requests, ndvi1, ndvi2, out>>

\* ------------------------------------------------ temporary raster (97-109)
\* line 97
EnterTmpdir ==
    /\ pc = "tmpdir"
    /\ disk' = disk \cup {Dir(tmpdir)}
    /\ Goto("write_raster")
    /\ UNCHANGED <<ui, net, zip_file, out>>

\* lines 98-109: the GeoTIFF is written, or rasterio raises
WriteRaster ==
    /\ pc = "write_raster"
    /\ \/ /\ disk' = disk \cup {diff_path}
          /\ Goto("image")
          /\ UNCHANGED zip_file
       \/ Raise("RasterioIOError")
    /\ UNCHANGED <<ui, net, out>>

\* ------------------------------------------------------ display (111-125)
\* lines 111-112
Normalizer ==
    /\ pc = "image"
    /\ displayed' = Normalize(diff)
    /\ Goto("slider")
    /\ UNCHANGED <<ui, net, fs, threshold, binary, geoms, reported,
                   geojson_bytes, zip_bytes>>

\* line 115: the slider returns a value of [0.0, 1.0]
Slider ==
    /\ pc = "slider"
    /\ threshold' \in {<<t>> : t \in 0..Scale}
    /\ Goto("threshold")
    /\ UNCHANGED <<ui, net, fs, displayed, binary, geoms, reported,
                   geojson_bytes, zip_bytes>>

\* line 118
Threshold ==
    /\ pc = "threshold"
    /\ binary' = Thresholder(diff, threshold[1])
    /\ Goto("polygonize")
    /\ UNCHANGED <<ui, net, fs, displayed, threshold, geoms, reported,
                   geojson_bytes, zip_bytes>>

\* lines 121-123
Polygonizer ==
    /\ pc = "polygonize"
    /\ geoms' = <<Polygons(binary)>>
    /\ Goto("report")
    /\ UNCHANGED <<ui, net, fs, displayed, threshold, binary, reported,
                   geojson_bytes, zip_bytes>>

\* line 125: st.success(f"Detected {len(gdf)} change areas.")
Report ==
    /\ pc = "report"
    /\ reported' = <<Len(geoms[1])>>
    /\ Goto("geojson")
    /\ UNCHANGED <<ui, net, fs, displayed, threshold, binary, geoms,
                   geojson_bytes, zip_bytes>>

\* ------------------------------------------------------- export (128-141)
\* lines 128-129: the feature collection, one feature per geometry, in order
ExportGeoJSON ==
    /\ pc = "geojson"
    /\ geojson_bytes' = geoms
    /\ Goto("zdir")
    /\ UNCHANGED <<ui, net, fs, displayed, threshold, binary, geoms, reported,
                   zip_bytes>>

\* line 131
EnterZdir ==
    /\ pc = "zdir"
    /\ disk' = disk \cup {Dir(zdir)}
    /\ Goto("to_file")
    /\ UNCHANGED <<ui, net, zip_file, out>>

\* lines 132-133: gdf.to_file leaves some of the five component files, or raises
WriteShapefile ==
    /\ pc = "to_file"
    /\ \/ /\ \E written \in SUBSET PartSet : disk' = disk \cup written
          /\ Goto("zip")
          /\ UNCHANGED zip_file
       \/ Raise("DriverError")
    /\ UNCHANGED <<ui, net, out>>

\* lines 134-139: ZipFile(zip_path, "w") creates the archive, the loop adds the
\* parts it selects; zf.write of a path that does not exist raises
WriteZip ==
    /\ pc = "zip"
    /\ LET chosen == Archived(disk)
       IN  IF \A k \in 1..Len(chosen) : chosen[k] \in disk
           THEN \/ /\ disk' = disk \cup {zip_path}
                   /\ zip_file' = <<[k \in 1..Len(chosen) |-> basename(chosen[k])]>>
                   /\ Goto("read_zip")
                \/ Raise("OSError")
           ELSE Raise("FileNotFoundError")
    /\ UNCHANGED <<ui, net, out>>

\* lines 140-141: f.read() and the download button
ReadZip ==
    /\ pc = "read_zip"
    /\ IF zip_path \in disk
       THEN /\ zip_bytes' = zip_file
            /\ Goto("exit_zdir")
            /\ UNCHANGED fs
       ELSE /\ Raise("FileNotFoundError")
            /\ UNCHANGED zip_bytes
    /\ UNCHANGED <<ui, net, displayed, threshold, binary, geoms, reported,
                   geojson_bytes>>

\* end of the `with` block of line 131
ExitZdir ==
    /\ pc = "exit_zdir"
    /\ disk' = Cleanup(zdir, disk)
    /\ zip_file' = None
    /\ Goto("exit_tmpdir")
    /\ UNCHANGED <<ui, net, out>>

\* end of the `with` block of line 97, which is the end of the script
ExitTmpdir ==
    /\ pc = "exit_tmpdir"
    /\ disk' = Cleanup(tmpdir, disk)
    /\ Finish
    /\ UNCHANGED <<ui, net, zip_file, out>>

Next ==
    \/ Upload \/ Draw \/ ResolveAOI \/ SelectDates \/ Button
    \/ Fetch1 \/ Fetch2 \/ Differencer
    \/ EnterTmpdir \/ WriteRaster
    \/ Normalizer \/ Slider \/ Threshold \/ Polygonizer \/ Report
    \/ ExportGeoJSON \/ EnterZdir \/ WriteShapefile \/ WriteZip \/ ReadZip
    \/ ExitZdir \/ ExitTmpdir

Spec == Init /\ [][Next]_vars

\* ------------------------------------------- the raster stages on their own
\* Lines 111-125 are pure functions of diff and the slider value.  SpecRaster
\* starts the script at line 111 with a difference raster drawn from bounded
\* sets: every raster of a small shape over the whole range of differences,
\* every two-level raster (0 or 2*Scale, so that each binary mask up to
\* MaxH x MaxW comes out of the thresholder), the 4x4 rasters with an
\* interior 2x2 block, a ring and a checkerboard.
SmallShapes == { <<1, 1>>, <<1, 2>>, <<2, 1>>, <<2, 2>> }

Block4x4(inside, outside) ==
    [i \in 1..4 |-> [j \in 1..4 |->
        IF i \in {2, 3} /\ j \in {2, 3} THEN inside ELSE outside]]

\* a closed ring around an unflagged pixel, and five pixels meeting at corners
Ring3x3 ==
    [i \in 1..3 |-> [j \in 1..3 |-> IF i = 2 /\ j = 2 THEN 0 ELSE 2 * Scale]]
Checker3x3 ==
    [i \in 1..3 |-> [j \in 1..3 |-> IF (i + j) % 2 = 0 THEN -2 * Scale ELSE Scale]]

RasterInputs ==
    UNION { RastersOf(s[1], s[2], (-2 * Scale)..(2 * Scale)) : s \in SmallShapes }
    \cup UNION { RastersOf(h, w, {0, 2 * Scale}) : <<h, w>> \in (1..MaxH) \X (1..MaxW) }
    \cup { Block4x4(2 * Scale, 0), Block4x4(-2 * Scale, Scale), Ring3x3, Checker3x3 }

\* two NDVI rasters in [-1,1] whose difference is d
Earlier(d) == [i \in 1..Height(d) |-> [j \in 1..Width(d) |->
                  IF d[i][j] >= 0 THEN -Scale ELSE Scale]]
Later(d) == [i \in 1..Height(d) |-> [j \in 1..Width(d) |->
                  IF d[i][j] >= 0 THEN d[i][j] - Scale ELSE d[i][j] + Scale]]

DrawnAOI == CHOOSE g \in Geoms : Len(g) = 4

InitRaster ==
    /\ pc = "image" /\ status = "running" /\ error = ""
    /\ aoi_file = None /\ output = DrawnAOI /\ aoi_geojson = DrawnAOI
    /\ bbox = Bounds(DrawnAOI)
    /\ date1 = <<1>> /\ date2 = <<2>>
    /\ size = bbox_to_dimensions(Bounds(DrawnAOI), resolution)
    /\ button = TRUE
    /\ requests = << [time_interval |-> <<1, 1>>, bbox |-> bbox, size |-> size],
                     [time_interval |-> <<2, 2>>, bbox |-> bbox, size |-> size] >>
    /\ diff \in RasterInputs
    /\ ndvi1 = Earlier(diff) /\ ndvi2 = Later(diff)
    /\ disk = {Dir(tmpdir), diff_path} /\ zip_file = None
    /\ displayed = None /\ threshold = None /\ binary = None /\ geoms = None
    /\ reported = None /\ geojson_bytes = None /\ zip_bytes = None

NextRaster == Normalizer \/ Slider \/ Threshold \/ Polygonizer \/ Report

SpecRaster == InitRaster /\ [][NextRaster]_vars

\* ================================================================ claims
NoOutput ==
    /\ displayed = None /\ threshold = None /\ binary = None /\ geoms = None
    /\ reported = None /\ geojson_bytes = None /\ zip_bytes = None

NoComputation ==
    /\ requests = <<>> /\ ndvi1 = None /\ ndvi2 = None /\ diff = None
    /\ disk = {} /\ zip_file = None

\* C1: a run with no uploaded file and no drawn shape stops at the AOI stage:
\* no bounding box, no request, no raster, mask, polygons or download.
C1_NoAoiHalts ==
    (aoi_file = None /\ output = None /\ pc \notin {"upload", "draw"})
        => /\ pc \in {"aoi", "done"}
           /\ aoi_geojson = None /\ bbox = None /\ size = None
           /\ NoComputation /\ NoOutput
           /\ status # "failed"

C1_Witness ==
    pc = "done" /\ status = "ok" /\ aoi_file = None /\ output = None

\* C2: a failed fetch ends the run in failure; nothing is computed, shown or
\* offered, the request is not repeated, and a failed date1 fetch means the
\* date2 request is never issued.
C2_FetchFailureTerminal ==
    (error = "DownloadFailedException")
        => /\ status = "failed" /\ pc = "done"
           /\ ndvi2 = None /\ diff = None /\ NoOutput
           /\ disk = {}
           /\ Len(requests) = (IF ndvi1 = None THEN 1 ELSE 2)
           /\ requests[1].time_interval = <<date1[1], date1[1]>>
           /\ (ndvi1 # None => requests[2].time_interval = <<date2[1], date2[1]>>)

C2_Witness ==
    error = "DownloadFailedException" /\ ndvi1 = None /\ Len(requests) = 1

\* C10: requests need an AOI and the button; at most one per date, date1's
\* answered before date2's is issued; a run that computes to its end issued
\* exactly two, also for equal dates, both with the run's bbox and size.
C10_Requests ==
    /\ Len(requests) <= 2
    /\ (requests # <<>> => aoi_geojson # None /\ bbox # None /\ button)
    /\ \A k \in 1..Len(requests) :
          /\ requests[k].bbox = bbox /\ requests[k].size = size
          /\ requests[k].bbox # None /\ requests[k].size # None
    /\ (Len(requests) >= 1 => requests[1].time_interval = <<date1[1], date1[1]>>)
    /\ (Len(requests) = 2 =>
          /\ requests[2].time_interval = <<date2[1], date2[1]>>
          /\ ndvi1 # None)
    /\ (ndvi1 # None => Len(requests) >= 1)
    /\ (ndvi2 # None => Len(requests) = 2)
    /\ ((pc = "done" /\ status = "ok" /\ button) => Len(requests) = 2)

C10_Witness ==
    /\ pc = "done" /\ status = "ok" /\ button
    /\ date1 = date2 /\ Len(requests) = 2 /\ requests[1] = requests[2]

\* C3: mask[i,j] = 1 exactly when |diff[i,j]| > t, strictly: a pixel whose
\* absolute difference equals t is 0, and the mask holds only 0 and 1.
C3_StrictThreshold ==
    binary # None =>
        /\ Shape(binary) = Shape(diff)
        /\ \A p \in Pixels(diff) :
              LET d == diff[p[1]][p[2]]
                  m == binary[p[1]][p[2]]
                  t == threshold[1]
              IN  /\ m \in {0, 1}
                  /\ (m = 1) <=> (d > t \/ d < -t)
                  /\ (d = t \/ d = -t) => m = 0

\* a positive threshold, one pixel exactly on it and one above it
C3_Witness ==
    /\ binary # None /\ threshold[1] > 0
    /\ \E p \in Pixels(diff) :
          diff[p[1]][p[2]] = -threshold[1] /\ binary[p[1]][p[2]] = 0
    /\ \E p \in Pixels(diff) :
          diff[p[1]][p[2]] > threshold[1] /\ binary[p[1]][p[2]] = 1

\* --- 4-connectivity, stated on its own for the polygon claims
Flagged == {p \in Pixels(binary) : binary[p[1]][p[2]] = 1}

EdgeAdjacent(p, q) == Abs(p[1] - q[1]) + Abs(p[2] - q[2]) = 1

CornerAdjacent(p, q) == Abs(p[1] - q[1]) = 1 /\ Abs(p[2] - q[2]) = 1

RECURSIVE Reach(_, _)
Reach(S, P) ==
    LET more == {q \in P \ S : \E p \in S : EdgeAdjacent(p, q)}
    IN  IF more = {} THEN S ELSE Reach(S \cup more, P)

\* adjacency is symmetric, so one starting pixel decides it
EdgeConnected(P) == P # {} /\ Reach({CHOOSE p \in P : TRUE}, P) = P

BlockMask == Block4x4(1, 0)

\* C7: the polygons are exactly the maximal 4-connected regions of 1-pixels:
\* each is a non-empty edge-connected set of flagged pixels, no two share or
\* touch along an edge, together they cover every flagged pixel and nothing
\* else; the reported count is the number of polygons.
C7_Polygons ==
    geoms # None =>
        LET G == geoms[1]
        IN  /\ \A k \in 1..Len(G) : G[k] \subseteq Flagged /\ EdgeConnected(G[k])
            /\ \A k, l \in 1..Len(G) :
                  k # l => /\ G[k] \cap G[l] = {}
                           /\ \A p \in G[k], q \in G[l] : ~EdgeAdjacent(p, q)
            /\ UNION {G[k] : k \in 1..Len(G)} = Flagged
            /\ (Flagged = {} => G = <<>>)
            /\ (Flagged = Pixels(binary) => Len(G) = 1 /\ G[1] = Pixels(binary))
            /\ (binary = BlockMask => Len(G) = 1 /\ Cardinality(G[1]) = 4)
            /\ (reported # None => reported[1] = Len(G))

\* two polygons over three flagged pixels, two of them meeting at a corner
C7_Witness ==
    /\ reported = <<2>> /\ Cardinality(Flagged) = 3
    /\ \E p \in geoms[1][1], q \in geoms[1][2] : CornerAdjacent(p, q)

\* C8: identical index rasters give an all-zero difference, an all-zero mask
\* for every threshold and an empty change set (count 0); for equal shapes the
\* difference is raster2 - raster1 pixel by pixel.
C8_IdenticalRasters ==
    /\ (diff # None /\ Shape(ndvi1) = Shape(ndvi2)) =>
          /\ Shape(diff) = Shape(ndvi1)
          /\ \A p \in Pixels(diff) :
                diff[p[1]][p[2]] = ndvi2[p[1]][p[2]] - ndvi1[p[1]][p[2]]
    /\ (diff # None /\ ndvi1 = ndvi2) =>
          /\ Values(diff) = {0}
          /\ (binary # None => Values(binary) = {0} /\ Shape(binary) = Shape(ndvi1))
          /\ (geoms # None => geoms = <<<<>>>>)
          /\ (reported # None => reported = <<0>>)
          /\ (geojson_bytes # None => geojson_bytes = <<<<>>>>)

C8_Witness ==
    /\ ndvi1 # None /\ ndvi1 = ndvi2 /\ Values(ndvi1) # {0}
    /\ threshold = <<0>> /\ reported = <<0>> /\ status = "ok" /\ pc = "done"

\* C9: the archive holds exactly the component files that exist after the
\* vector write, each once, under its base name, never itself; a missing
\* component raises nothing; five existing components give five entries.
C9_ArchiveContents ==
    /\ error # "FileNotFoundError"
    /\ zip_file # None =>
          LET entries == zip_file[1]
              names == {entries[k] : k \in 1..Len(entries)}
          IN  /\ zip_path \in disk
              /\ names = {basename(f) : f \in disk \cap PartSet}
              /\ Cardinality(names) = Len(entries)
              /\ basename(zip_path) \notin names
              /\ (PartSet \subseteq disk => Len(entries) = 5)
              /\ (zip_bytes # None => zip_bytes = zip_file)
    /\ (pc = "read_zip" => zip_file # None)

\* the run ends well with an archive that lacks a component
C9_Witness ==
    /\ pc = "done" /\ status = "ok" /\ zip_bytes # None
    /\ Len(zip_bytes[1]) = 3 /\ <<"ndvi_change", ".prj">> \notin {zip_bytes[1][k] : k \in 1..3}

C4_ShapeMismatchFails ==
    (ndvi1 # None /\ ndvi2 # None /\ Shape(ndvi1) # Shape(ndvi2) /\ pc # "subtract")
        => /\ status = "failed" /\ error = "ValueError"
           /\ diff = None /\ NoOutput

\* C5 as stated: no not-a-number reaches the image; a constant difference
\* gives a constant image and no error; otherwise min maps to 0 and max to 1.
C5_NormalizerGuarded ==
    displayed # None =>
        LET lo == SetMin(Values(diff))
            hi == SetMax(Values(diff))
        IN  /\ Shape(displayed) = Shape(diff)
            /\ \A p \in Pixels(displayed) : ~IsNaN(displayed[p[1]][p[2]])
            /\ (lo = hi => Cardinality(Values(displayed)) = 1)
            /\ (lo # hi => \A p \in Pixels(diff) :
                   LET v == displayed[p[1]][p[2]]
                   IN  /\ (diff[p[1]][p[2]] = lo => v[1] = 0)
                       /\ (diff[p[1]][p[2]] = hi => v[1] = v[2]))

====
